---- MODULE Spec2Model ----
(***************************************************************************)
(* A model of the hand-written scanner of src/source/scanner.h: the class  *)
(* Scanner (source buffer, read cursor, line counter) and its one public   *)
(* operation getNextToken.                                                 *)
(*                                                                         *)
(* Characters are one-character strings, a source text is a sequence of    *)
(* them, and positions are 0-based as in the C++ code (At converts).       *)
(* Every `char nextChar` of the switch is modelled as a local of its own   *)
(* case arm, and control falls from one arm into the next where the code   *)
(* has no return (case '!').                                               *)
(***************************************************************************)
EXTENDS Integers, Sequences, FiniteSets, TLC

\* ------------------------------------------------------------- bounds
\* Longest source text drawn from Alphabet.
MaxLen == 3
\* How many calls of getNextToken at end-of-input a run makes.
MaxEofCalls == 2

\* ------------------------------------------------------------- characters
\* '\0': what std::string::operator[] yields at index size(), and what
\* peekChar returns at end-of-input.
NUL == "\\0"

Lower == {"a","b","c","d","e","f","g","h","i","j","k","l","m",
          "n","o","p","q","r","s","t","u","v","w","x","y","z"}
Upper == {"A","B","C","D","E","F","G","H","I","J","K","L","M",
          "N","O","P","Q","R","S","T","U","V","W","X","Y","Z"}
Digit == {"0","1","2","3","4","5","6","7","8","9"}

\* std::isalpha(c) || c == '_'   (the "C" locale)
isAlpha(c) == c \in Lower \cup Upper \/ c = "_"

\* std::isalnum(c) || c == '_'
isAlphaNumeric(c) == c \in Lower \cup Upper \cup Digit \/ c = "_"

\* ------------------------------------------------------------- state
VARIABLES
  sourceCode_,       \* Scanner::sourceCode_, the text being scanned
  currentPosition_,  \* Scanner::currentPosition_, offset of the next unconsumed character
  line_,             \* Scanner::line_, the line counter
  calls,             \* one record per getNextToken call made so far, in order
  aborted            \* the process died in a call (undefined behaviour)

vars == <<sourceCode_, currentPosition_, line_, calls, aborted>>

\* ------------------------------------------------------------- Token
Token(type, lexeme, line) == [type_ |-> type, lexeme_ |-> lexeme, line_ |-> line]

\* The kind the spec calls the error kind; scanner.h never builds a token of it.
ERROR == "ERROR"

\* What a caller holds after a call that did not return: no token.
NoToken == Token("NONE", <<>>, 0)

\* ------------------------------------------------------------- helpers of Scanner
\* sourceCode_[i] for 0 <= i <= length().
At(i) == IF i < Len(sourceCode_) THEN sourceCode_[i + 1] ELSE NUL

\* An end test that is off by one (> for >=).
isAtEnd_OffByOne(pos) == pos > Len(sourceCode_)

isAtEnd(pos) == pos >= Len(sourceCode_)

\* char getChar() { return sourceCode_[currentPosition_++]; }
getChar(pos) == [c |-> At(pos), pos |-> pos + 1]

\* peekChar reads sourceCode_[currentPosition_ + 1]: one past the next
\* unconsumed character.
peekChar(pos) == IF isAtEnd(pos) THEN NUL ELSE At(pos + 1)

match_Backwards(pos, peek, expected) ==
  IF isAtEnd(pos) \/ peek # expected
    THEN [ok |-> FALSE, pos |-> pos]
    ELSE [ok |-> TRUE, pos |-> pos - 1]

\* match advances the cursor by one when the peeked character is the expected one.
match(pos, peek, expected) ==
  IF isAtEnd(pos) \/ peek # expected
    THEN [ok |-> FALSE, pos |-> pos]
    ELSE [ok |-> TRUE, pos |-> pos + 1]

\* The inner loop of the '#' branch: up to, not including, the '\n'.
RECURSIVE skipComment(_)
skipComment(pos) ==
  IF ~isAtEnd(pos) /\ At(pos) # "\n" THEN skipComment(pos + 1) ELSE pos

\* A skip phase that passes '\n' like any other blank, without line_++.
RECURSIVE skipWhitespaceAndComments_NoLine(_, _)
skipWhitespaceAndComments_NoLine(pos, line) ==
  IF isAtEnd(pos) THEN [pos |-> pos, line |-> line]
  ELSE LET c == At(pos) IN
       IF c = " " \/ c = "\t" \/ c = "\r" \/ c = "\n"
         THEN skipWhitespaceAndComments_NoLine(pos + 1, line)
       ELSE IF c = "#"
         THEN skipWhitespaceAndComments_NoLine(skipComment(pos), line)
       ELSE [pos |-> pos, line |-> line]

RECURSIVE skipWhitespaceAndComments(_, _)
skipWhitespaceAndComments(pos, line) ==
  IF isAtEnd(pos) THEN [pos |-> pos, line |-> line]
  ELSE LET c == At(pos) IN
       IF c = " " \/ c = "\t" \/ c = "\r"
         THEN skipWhitespaceAndComments(pos + 1, line)
       ELSE IF c = "\n"
         THEN skipWhitespaceAndComments(pos + 1, line + 1)
       ELSE IF c = "#"
         THEN skipWhitespaceAndComments(skipComment(pos), line)
       ELSE [pos |-> pos, line |-> line]

\* ------------------------------------------------------------- keywords
\* The if / else-if chain of getKeywordType, in its order.
KeywordChain ==
    <<
       <<<<"f","a","l","s","e">>, "KW_FALSE">>,
       <<<<"n","o","n","e">>, "KW_NONE">>,
       <<<<"t","r","u","e">>, "KW_TRUE">>,
       <<<<"a","n","d">>, "KW_AND">>,
       <<<<"a","s">>, "KW_AS">>,
       <<<<"a","s","s","e","r","t">>, "KW_ASSERT">>,
       <<<<"a","s","y","n","c">>, "KW_ASYNC">>,
       <<<<"a","w","a","i","t">>, "KW_AWAIT">>,
       <<<<"b","r","e","a","k">>, "KW_BREAK">>,
       <<<<"c","l","a","s","s">>, "KW_CLASS">>,
       <<<<"c","o","n","t","i","n","u","e">>, "KW_CONTINUE">>,
       <<<<"d","e","f">>, "KW_DEF">>,
       <<<<"d","e","l">>, "KW_DEL">>,
       <<<<"e","l","i","f">>, "KW_ELIF">>,
       <<<<"e","l","s","e">>, "KW_ELSE">>,
       <<<<"e","x","c","e","p","t">>, "KW_EXCEPT">>,
       <<<<"f","i","n","a","l","l","y">>, "KW_FINALLY">>,
       <<<<"f","o","r">>, "KW_FOR">>,
       <<<<"f","r","o","m">>, "KW_FROM">>,
       <<<<"g","l","o","b","a","l">>, "KW_GLOBAL">>,
       <<<<"i","f">>, "KW_IF">>,
       <<<<"i","m","p","o","r","t">>, "KW_IMPORT">>,
       <<<<"i","n">>, "KW_IN">>,
       <<<<"i","s">>, "KW_IS">>,
       <<<<"l","a","m","b","d","a">>, "KW_LAMBDA">>,
       <<<<"n","o","n","l","o","c","a","l">>, "KW_NONLOCAL">>,
       <<<<"n","o","t">>, "KW_NOT">>,
       <<<<"o","r">>, "KW_OR">>,
       <<<<"p","a","s","s">>, "KW_PASS">>,
       <<<<"r","a","i","s","e">>, "KW_RAISE">>,
       <<<<"r","e","t","u","r","n">>, "KW_RETURN">>,
       <<<<"t","r","y">>, "KW_TRY">>,
       <<<<"w","h","i","l","e">>, "KW_WHILE">>,
       <<<<"w","i","t","h">>, "KW_WITH">>,
       <<<<"y","i","e","l","d">>, "KW_YIELD">>
    >>

\* A chain that takes the first reserved word the lexeme starts with.
RECURSIVE prefixKeywordFrom(_, _)
prefixKeywordFrom(lexeme, i) ==
  IF i > Len(KeywordChain) THEN "IDENTIFIER"
  ELSE LET w == KeywordChain[i][1] IN
       IF Len(w) <= Len(lexeme) /\ SubSeq(lexeme, 1, Len(w)) = w
         THEN KeywordChain[i][2]
         ELSE prefixKeywordFrom(lexeme, i + 1)

getKeywordType_Prefix(lexeme) == prefixKeywordFrom(lexeme, 1)

\* The chain from its i-th comparison on: the first equal word decides, and
\* IDENTIFIER is what is left when none is equal.
RECURSIVE keywordFrom(_, _)
keywordFrom(lexeme, i) ==
  IF i > Len(KeywordChain) THEN "IDENTIFIER"
  ELSE IF lexeme = KeywordChain[i][1] THEN KeywordChain[i][2]
  ELSE keywordFrom(lexeme, i + 1)

getKeywordType(lexeme) == keywordFrom(lexeme, 1)

\* A loop that goes on over letters and underscores only (isAlpha for isAlphaNumeric).
RECURSIVE identifierRun_LettersOnly(_, _)
identifierRun_LettersOnly(lexeme, pos) ==
  IF ~isAtEnd(pos) /\ (isAlpha(At(pos)) \/ At(pos) = "_")
    THEN LET g == getChar(pos) IN identifierRun_LettersOnly(Append(lexeme, g.c), g.pos)
    ELSE [lexeme |-> lexeme, pos |-> pos]

\* The while loop of scanIdentifier; lexeme already holds sourceCode_[start].
RECURSIVE identifierRun(_, _)
identifierRun(lexeme, pos) ==
  IF ~isAtEnd(pos) /\ (isAlphaNumeric(At(pos)) \/ At(pos) = "_")
    THEN LET g == getChar(pos) IN identifierRun(Append(lexeme, g.c), g.pos)
    ELSE [lexeme |-> lexeme, pos |-> pos]

\* ------------------------------------------------------------- getNextToken
\* What one call leaves behind: the token, the cursor, the line counter, and
\* the way the call ended: "eof" (return at line 36), "op" (a return of the
\* switch), "ident" (scanIdentifier), "ub" (control left the function without
\* a return and the caller got an object), "abort" (the process died there).
Returned(tok, pos, line, path) == [tok |-> tok, pos |-> pos, line |-> line, path |-> path]

endOfFile_Consumes(pos, line) ==
  Returned(Token("END_OF_FILE", <<>>, line + 1), pos + 1, line + 1, "eof")

\* if (isAtEnd()) return Token(END_OF_FILE, "", line_);
endOfFile(pos, line) == Returned(Token("END_OF_FILE", <<>>, line), pos, line, "eof")

\* Token scanIdentifier(), entered with the cursor one past the first character.
scanIdentifier(pos, line) ==
  LET run == identifierRun(<<At(pos - 1)>>, pos)
      type == getKeywordType(run.lexeme)
  IN  Returned(Token(type, run.lexeme, line), run.pos, line, "ident")

\* The kinds, lexemes and lines drawn for the object a caller holds after
\* control flowed off the end of getNextToken: its bytes were never written
\* by a constructor.
IndeterminateTokens(c, line) ==
  {Token(t, p[1], p[2]) : t \in {"END_OF_FILE", "IDENTIFIER", ERROR},
                          p \in {<<<<>>, 0>>, <<<<c>>, line>>}}

\* Control reaches the closing brace of a function returning Token: undefined
\* behaviour. The cursor has already moved (getChar); the call either kills
\* the process or hands back an indeterminate object.
fallOffEnd(c, pos, line) ==
  {Returned(NoToken, pos, line, "abort")}
    \cup {Returned(t, pos, line, "ub") : t \in IndeterminateTokens(c, line)}

\* A case arm whose two-character return carries the one-character lexeme.
twoOrOne_OneCharLexeme(pos, line, expected, two, one) ==
  LET nextChar == peekChar(pos)
      m == match(pos, nextChar, expected)
  IN  IF m.ok THEN Returned(Token(two[1], one[2], line), m.pos, line, "op")
              ELSE Returned(Token(one[1], one[2], line), m.pos, line, "op")

\* A case arm that peeks for `expected` and returns the two-character token
\* or the one-character one.
twoOrOne(pos, line, expected, two, one) ==
  LET nextChar == peekChar(pos)
      m == match(pos, nextChar, expected)
  IN  IF m.ok THEN Returned(Token(two[1], two[2], line), m.pos, line, "op")
              ELSE Returned(Token(one[1], one[2], line), m.pos, line, "op")

\* The switch of getNextToken on the character c just read by getChar, the
\* cursor being at pos: the set of ways the call can end.
switchOn(c, pos, line) ==
  CASE c = "+" -> {Returned(Token("PLUS", <<"+">>, line), pos, line, "op")}
    [] c = "-" -> {twoOrOne(pos, line, ">", <<"ARROW", <<"-", ">">>>>, <<"MINUS", <<"-">>>>)}
    [] c = "*" -> {Returned(Token("ASTERISK", <<"*">>, line), pos, line, "op")}
    [] c = "/" -> {Returned(Token("DOUBLE_SLASH", <<"/", "/">>, line), pos, line, "op")}
    [] c = "%" -> {Returned(Token("MODULO", <<"%">>, line), pos, line, "op")}
    [] c = "<" -> {twoOrOne(pos, line, "=", <<"LESS_EQUAL", <<"<", "=">>>>, <<"LESS", <<"<">>>>)}
    [] c = ">" -> {twoOrOne(pos, line, "=", <<"GREATER_EQUAL", <<">", "=">>>>, <<"GREATER", <<">">>>>)}
    [] c = "=" -> {twoOrOne(pos, line, "=", <<"EQUALS", <<"=", "=">>>>, <<"ASSIGN", <<"=">>>>)}
       \* case '!': the else branch is empty and control falls into case '('
    [] c = "!" -> {twoOrOne(pos, line, "=", <<"NOT_EQUAL", <<"!", "=">>>>, <<"LEFT_PAREN", <<"(">>>>)}
    [] c = "(" -> {Returned(Token("LEFT_PAREN", <<"(">>, line), pos, line, "op")}
    [] c = ")" -> {Returned(Token("RIGHT_PAREN", <<")">>, line), pos, line, "op")}
    [] c = "[" -> {Returned(Token("LEFT_BRACKET", <<"[">>, line), pos, line, "op")}
    [] c = "]" -> {Returned(Token("RIGHT_BRACKET", <<"]">>, line), pos, line, "op")}
    [] c = "," -> {Returned(Token("COMMA", <<",">>, line), pos, line, "op")}
    [] c = ":" -> {Returned(Token("COLON", <<":">>, line), pos, line, "op")}
    [] c = "." -> {Returned(Token("DOT", <<".">>, line), pos, line, "op")}
    [] OTHER   -> IF isAlpha(c) THEN {scanIdentifier(pos, line)}
                                ELSE fallOffEnd(c, pos, line)

\* A switch whose case ':' returns the token of case ','.
getNextToken_ColonAsComma(pos, line) ==
  IF isAtEnd(pos) THEN {endOfFile(pos, line)}
  ELSE LET g == getChar(pos) IN
       switchOn(IF g.c = ":" THEN "," ELSE g.c, g.pos, line)

\* Token getNextToken(), after skipWhitespaceAndComments left the cursor at
\* pos and the line counter at line.
getNextToken(pos, line) ==
  IF isAtEnd(pos) THEN {endOfFile(pos, line)}
  ELSE LET g == getChar(pos) IN switchOn(g.c, g.pos, line)

\* ------------------------------------------------------------- buffer reads
\* The reads sourceCode_[at] a call performs, each with the function doing it.
Read(by, at) == [by |-> by, at |-> at]

\* The inner loop of the '#' branch tests sourceCode_[currentPosition_] != '\n'.
RECURSIVE commentReads(_)
commentReads(pos) ==
  IF isAtEnd(pos) THEN {}
  ELSE {Read("skipWhitespaceAndComments", pos)}
         \cup (IF At(pos) # "\n" THEN commentReads(pos + 1) ELSE {})

\* char c = sourceCode_[currentPosition_] at each turn of the skip loop.
RECURSIVE skipReads(_)
skipReads(pos) ==
  IF isAtEnd(pos) THEN {}
  ELSE {Read("skipWhitespaceAndComments", pos)}
         \cup (LET c == At(pos) IN
               IF c = " " \/ c = "\t" \/ c = "\r" \/ c = "\n" THEN skipReads(pos + 1)
               ELSE IF c = "#" THEN commentReads(pos) \cup skipReads(skipComment(pos))
               ELSE {})

\* The loop of scanIdentifier tests sourceCode_[currentPosition_] and reads
\* it again through getChar.
RECURSIVE runReads(_)
runReads(pos) ==
  IF isAtEnd(pos) THEN {}
  ELSE {Read("scanIdentifier", pos)}
         \cup (IF isAlphaNumeric(At(pos)) \/ At(pos) = "_"
                 THEN {Read("getChar", pos)} \cup runReads(pos + 1)
                 ELSE {})

\* return sourceCode_[currentPosition_+1], past the end test.
peekReads(pos) == IF isAtEnd(pos) THEN {} ELSE {Read("peekChar", pos + 1)}

\* The reads of getNextToken after the skip phase left the cursor at pos:
\* getChar, then peekChar in the five lookahead cases, or scanIdentifier
\* (sourceCode_[currentPosition_ - 1], then its loop) in the default branch.
tokenReads(pos) ==
  IF isAtEnd(pos) THEN {}
  ELSE LET g == getChar(pos) IN
       {Read("getChar", pos)}
         \cup (IF g.c \in {"-", "<", ">", "=", "!"} THEN peekReads(g.pos)
               ELSE IF g.c \notin {"+", "*", "/", "%", "(", ")", "[", "]", ",", ":", "."}
                       /\ isAlpha(g.c)
                 THEN {Read("scanIdentifier", g.pos - 1)} \cup runReads(g.pos)
               ELSE {})

\* ------------------------------------------------------------- source texts
Alphabet == {"-", ">", "<", "=", "!", "/", "+", " ", "\n", "#", "i", "f", "_", "1"}

BoundedSources == UNION {[1..n -> Alphabet] : n \in 0..MaxLen}

\* The reserved words of the language with the kind of each (spec 4.2).
ReservedWords ==
    <<
       <<<<"a","n","d">>, "KW_AND">>,
       <<<<"a","s">>, "KW_AS">>,
       <<<<"a","s","s","e","r","t">>, "KW_ASSERT">>,
       <<<<"a","s","y","n","c">>, "KW_ASYNC">>,
       <<<<"a","w","a","i","t">>, "KW_AWAIT">>,
       <<<<"b","r","e","a","k">>, "KW_BREAK">>,
       <<<<"c","l","a","s","s">>, "KW_CLASS">>,
       <<<<"c","o","n","t","i","n","u","e">>, "KW_CONTINUE">>,
       <<<<"d","e","f">>, "KW_DEF">>,
       <<<<"d","e","l">>, "KW_DEL">>,
       <<<<"e","l","i","f">>, "KW_ELIF">>,
       <<<<"e","l","s","e">>, "KW_ELSE">>,
       <<<<"e","x","c","e","p","t">>, "KW_EXCEPT">>,
       <<<<"f","a","l","s","e">>, "KW_FALSE">>,
       <<<<"f","i","n","a","l","l","y">>, "KW_FINALLY">>,
       <<<<"f","o","r">>, "KW_FOR">>,
       <<<<"f","r","o","m">>, "KW_FROM">>,
       <<<<"g","l","o","b","a","l">>, "KW_GLOBAL">>,
       <<<<"i","f">>, "KW_IF">>,
       <<<<"i","m","p","o","r","t">>, "KW_IMPORT">>,
       <<<<"i","n">>, "KW_IN">>,
       <<<<"i","s">>, "KW_IS">>,
       <<<<"l","a","m","b","d","a">>, "KW_LAMBDA">>,
       <<<<"n","o","n","e">>, "KW_NONE">>,
       <<<<"n","o","n","l","o","c","a","l">>, "KW_NONLOCAL">>,
       <<<<"n","o","t">>, "KW_NOT">>,
       <<<<"o","r">>, "KW_OR">>,
       <<<<"p","a","s","s">>, "KW_PASS">>,
       <<<<"r","a","i","s","e">>, "KW_RAISE">>,
       <<<<"r","e","t","u","r","n">>, "KW_RETURN">>,
       <<<<"t","r","u","e">>, "KW_TRUE">>,
       <<<<"t","r","y">>, "KW_TRY">>,
       <<<<"w","h","i","l","e">>, "KW_WHILE">>,
       <<<<"w","i","t","h">>, "KW_WITH">>,
       <<<<"y","i","e","l","d">>, "KW_YIELD">>
    >>

\* Every reserved word as a source of its own.
KeywordSources == {ReservedWords[i][1] : i \in 1..Len(ReservedWords)}

\* Texts the properties name, and characters Alphabet leaves out.
ExtraSources ==
  { <<"I","f">>, <<"i","f","f","y">>, <<"I","F">>, <<"i","f","_">>,
    <<"a","s","s">>, <<"n","o","n","e","s">>, <<"T","r","u","e">>,
    <<"x"," ","="," ","1"," "," ","#"," ","c","\n">>,
    <<"x"," ","="," ","1"," "," ","#"," ","c","o","m","m","e","n","t","\n">>,
    <<"i","f"," ","x","<","=","3",":","\n"," "," ","p","a","s","s">>,
    <<"+","*","%","(",")","[","]",",",":",".">>,
    <<"@">>, <<"@","x">>, <<"\n","%","="," ",")">>, <<"[","\n","]",">",".","/",",","=">>, <<"$","\n","?">>, <<"\t","\r","x">>,
    <<"!","(">>, <<"/","x">>, <<"i","s"," ","x","/","y">>, <<"-","\n",">">> }

Sources == BoundedSources \cup KeywordSources \cup ExtraSources

\* ------------------------------------------------------------- behaviour
\* Scanner(const std::string& sourceCode)
Init ==
  /\ sourceCode_ \in Sources
  /\ currentPosition_ = 0
  /\ line_ = 1
  /\ calls = <<>>
  /\ aborted = FALSE

EofCalls == Cardinality({i \in 1..Len(calls) : calls[i].path = "eof"})

\* One call of getNextToken by the caller, who stops after MaxEofCalls
\* END_OF_FILE tokens and cannot call once the process has died.
GetNextToken ==
  /\ ~aborted
  /\ EofCalls < MaxEofCalls
  /\ LET s == skipWhitespaceAndComments(currentPosition_, line_) IN
     \E o \in getNextToken(s.pos, s.line) :
       /\ currentPosition_' = o.pos
       /\ line_' = o.line
       /\ aborted' = (o.path = "abort")
       /\ calls' = Append(calls, [tok   |-> o.tok,
                                  path  |-> o.path,
                                  entry |-> currentPosition_,
                                  start |-> s.pos,
                                  exit  |-> o.pos,
                                  lineEntry |-> line_,
                                  lineExit  |-> o.line,
                                  reads |-> skipReads(currentPosition_) \cup tokenReads(s.pos)])
  /\ UNCHANGED sourceCode_

Next == GetNextToken

Spec == Init /\ [][Next]_vars

\* The caller keeps calling for as long as it can.
FairSpec == Spec /\ WF_vars(Next)

\* ------------------------------------------------------------- properties
CallIds == 1..Len(calls)

\* The call ended in a return statement, so the caller holds a constructed Token.
ReturnedToken(k) == k.path \in {"eof", "op", "ident"}

ReturnedEndOfFile(k) == ReturnedToken(k) /\ k.tok.type_ = "END_OF_FILE"

\* The number of '\n' in sourceCode_[0 .. pos-1].
NewlinesBefore(pos) == Cardinality({q \in 0..(pos - 1) : At(q) = "\n"})

ReservedWordSet == {ReservedWords[i][1] : i \in 1..Len(ReservedWords)}

ReservedKind(w) == (CHOOSE i \in 1..Len(ReservedWords) : ReservedWords[i][1] = w)

\* A run of letters, digits and underscores that starts with a letter or an underscore.
IsIdentifierRun(s) ==
  /\ Len(s) >= 1
  /\ s[1] \in Lower \cup Upper \cup {"_"}
  /\ \A i \in 1..Len(s) : s[i] \in Lower \cup Upper \cup Digit \cup {"_"}

\* C1: once a call has returned an END_OF_FILE token, every later call returns
\* the identical token (END_OF_FILE, empty lexeme, same line) and leaves the
\* cursor and the line counter where they were.
C1_EndOfFileIdempotent ==
  \A i \in CallIds : \A j \in CallIds :
    (i < j /\ ReturnedEndOfFile(calls[i])) =>
      /\ ReturnedEndOfFile(calls[j])
      /\ calls[j].tok = calls[i].tok
      /\ calls[j].tok = Token("END_OF_FILE", <<>>, calls[i].lineExit)
      /\ calls[j].entry = calls[i].exit /\ calls[j].exit = calls[i].exit
      /\ calls[j].lineEntry = calls[i].lineExit /\ calls[j].lineExit = calls[i].lineExit

\* C1 witness: a text with a token on line 2 has been scanned to its end and
\* END_OF_FILE was returned twice.
C1_Witness ==
  /\ Len(calls) >= 3
  /\ calls[1].path = "op" /\ calls[1].tok.line_ = 2
  /\ ReturnedEndOfFile(calls[Len(calls) - 1])
  /\ ReturnedEndOfFile(calls[Len(calls)])

\* C2: the cursor never decreases, and every call either advances it by at
\* least one character or returns the END_OF_FILE token.
C2_CursorAdvances ==
  [][ /\ currentPosition_' >= currentPosition_
      /\ \/ currentPosition_' > currentPosition_
         \/ ReturnedEndOfFile(calls'[Len(calls')]) ]_vars

\* C2 witness: one call moved the cursor over more than one character (a
\* skip, a two-character operator or an identifier) and a later call, at
\* end-of-input, returned END_OF_FILE without moving it.
C2_Witness ==
  /\ Len(calls) >= 2
  /\ calls[1].exit >= calls[1].entry + 2
  /\ ReturnedEndOfFile(calls[Len(calls)])
  /\ calls[Len(calls)].exit = calls[Len(calls)].entry

\* C3 (as claimed): whatever the source text, a caller that keeps calling
\* getNextToken eventually receives an END_OF_FILE token.
C3_EventuallyEndOfFile ==
  <>(\E i \in CallIds : calls[i].tok.type_ = "END_OF_FILE")

\* The kind the spec gives a run: its keyword kind when it is a reserved
\* word, IDENTIFIER otherwise.
KindOfRun(w) ==
  IF w \in ReservedWordSet THEN ReservedWords[ReservedKind(w)][2] ELSE "IDENTIFIER"

\* C4: a source that is exactly a reserved word scans as that word's keyword
\* kind; a source that is any other run of letters, digits and underscores
\* starting with a letter or underscore scans as IDENTIFIER, the lexeme being
\* the whole run; and wherever a token begins at a letter or underscore, its
\* kind is the keyword kind exactly when its lexeme is a reserved word.
C4_KeywordOrIdentifier ==
  /\ (Len(calls) >= 1 /\ IsIdentifierRun(sourceCode_)) =>
       /\ ReturnedToken(calls[1])
       /\ calls[1].tok.lexeme_ = sourceCode_
       /\ calls[1].tok.type_ = KindOfRun(sourceCode_)
  /\ \A i \in CallIds :
       LET k == calls[i] IN
       (k.start < Len(sourceCode_) /\ At(k.start) \in Lower \cup Upper \cup {"_"}) =>
         /\ ReturnedToken(k)
         /\ k.tok.lexeme_ = SubSeq(sourceCode_, k.start + 1, k.exit)
         /\ IsIdentifierRun(k.tok.lexeme_)
         /\ k.tok.type_ = KindOfRun(k.tok.lexeme_)

\* C4 witness: the source "yield", the last word of the chain, was scanned as KW_YIELD.
C4_Witness ==
  /\ sourceCode_ = <<"y","i","e","l","d">>
  /\ Len(calls) >= 1
  /\ calls[1].tok = Token("KW_YIELD", sourceCode_, 1)

\* C3 witness of the failure: the process died in a call before any
\* END_OF_FILE token was returned.
C3_Aborted ==
  aborted /\ \A i \in CallIds : calls[i].tok.type_ # "END_OF_FILE"

\* C5 (as claimed): a returned token that begins after n newline characters
\* of the source carries line n + 1.
C5_LineIsNewlinesPlusOne ==
  \A i \in CallIds :
    ReturnedToken(calls[i]) =>
      calls[i].tok.line_ = NewlinesBefore(calls[i].start) + 1

\* C6 (as claimed): a token that begins at '-' is ARROW over exactly "->"
\* when the next character is '>', and otherwise MINUS over exactly the '-',
\* the following call beginning its scan right after it.
C6_ArrowOrMinus ==
  \A i \in CallIds :
    LET k == calls[i] IN
    (k.start < Len(sourceCode_) /\ At(k.start) = "-") =>
      IF k.start + 1 < Len(sourceCode_) /\ At(k.start + 1) = ">"
        THEN k.tok = Token("ARROW", <<"-", ">">>, k.lineExit) /\ k.exit = k.start + 2
        ELSE k.tok = Token("MINUS", <<"-">>, k.lineExit) /\ k.exit = k.start + 1

\* The one-character kind of '<', '>', '='.
OneCharKind(c) == CASE c = "<" -> "LESS" [] c = ">" -> "GREATER" [] c = "=" -> "ASSIGN"

\* The kind of "<=", ">=", "==", "!=".
TwoCharKind(c) ==
  CASE c = "<" -> "LESS_EQUAL" [] c = ">" -> "GREATER_EQUAL"
    [] c = "=" -> "EQUALS"     [] c = "!" -> "NOT_EQUAL"

\* C7 (as claimed): each of the sources "<=", ">=", "==", "!=" scans as its
\* two-character token and then END_OF_FILE; a token that begins at '<', '>'
\* or '=' not followed by '=' is the one-character token over that character.
C7_ComparisonOperators ==
  /\ (Len(sourceCode_) = 2 /\ sourceCode_[1] \in {"<", ">", "=", "!"} /\ sourceCode_[2] = "=") =>
       /\ Len(calls) >= 1 =>
            /\ calls[1].tok = Token(TwoCharKind(sourceCode_[1]), sourceCode_, 1)
            /\ calls[1].exit = 2
       /\ Len(calls) >= 2 => ReturnedEndOfFile(calls[2])
  /\ \A i \in CallIds :
       LET k == calls[i] IN
       (/\ k.start < Len(sourceCode_)
        /\ At(k.start) \in {"<", ">", "="}
        /\ ~(k.start + 1 < Len(sourceCode_) /\ At(k.start + 1) = "=")) =>
         /\ k.tok = Token(OneCharKind(At(k.start)), <<At(k.start)>>, k.lineExit)
         /\ k.exit = k.start + 1

\* C8 (as claimed): a token that begins at "//" is one DOUBLE_SLASH over both
\* characters; a token that begins at a '/' not followed by '/' is of another
\* kind and is over that one character.
C8_SlashOrDoubleSlash ==
  \A i \in CallIds :
    LET k == calls[i] IN
    (k.start < Len(sourceCode_) /\ At(k.start) = "/") =>
      IF k.start + 1 < Len(sourceCode_) /\ At(k.start + 1) = "/"
        THEN k.tok = Token("DOUBLE_SLASH", <<"/", "/">>, k.lineExit) /\ k.exit = k.start + 2
        ELSE k.tok.type_ # "DOUBLE_SLASH" /\ k.exit = k.start + 1

\* C9 (as claimed): a call that begins at a '!' not followed by '=' returns a
\* token of the error kind.
C9_BangAloneIsError ==
  \A i \in CallIds :
    LET k == calls[i] IN
    (/\ k.start < Len(sourceCode_)
     /\ At(k.start) = "!"
     /\ ~(k.start + 1 < Len(sourceCode_) /\ At(k.start + 1) = "=")) =>
      ReturnedToken(k) /\ k.tok.type_ = ERROR

\* The characters that start a token or are skipped, digits and quotes
\* (which the spec gives rules of their own) included.
TokenStartChars ==
  Lower \cup Upper \cup Digit \cup
  {"_", " ", "\t", "\r", "\n", "#", "'", "\"",
   "+", "-", "*", "/", "%", "<", ">", "=", "!", "(", ")", "[", "]", ",", ":", "."}

\* C10 (as claimed): a call that begins at a character matching no rule
\* returns an error-kind token with that character as lexeme and the current
\* line, and consumes exactly that character.
C10_UnrecognizedIsError ==
  \A i \in CallIds :
    LET k == calls[i] IN
    (k.start < Len(sourceCode_) /\ At(k.start) \notin TokenStartChars) =>
      /\ ReturnedToken(k)
      /\ k.tok = Token(ERROR, <<At(k.start)>>, k.lineExit)
      /\ k.tok.line_ = NewlinesBefore(k.start) + 1
      /\ k.exit = k.start + 1

Blank == {" ", "\t", "\r", "\n"}

\* Position q, reached by a skip that began at entry, lies in a '#' comment:
\* a '#' at or before it, with no '\n' from that '#' up to q.
InComment(q, entry) ==
  \E h \in entry..q : At(h) = "#" /\ \A r \in h..q : At(r) # "\n"

\* C11: the skip phase of every call consumes only blanks and comment
\* characters (a comment ending before its '\n'), stops only at end-of-input
\* or at a character that is no blank and no '#', and adds to the line counter
\* exactly the number of '\n' it consumed; a call whose skip reaches
\* end-of-input returns END_OF_FILE, and no other call does.
C11_SkipPhase ==
  \A i \in CallIds :
    LET k == calls[i] IN
    /\ k.entry <= k.start /\ k.start <= Len(sourceCode_)
    /\ \A q \in k.entry..(k.start - 1) : At(q) \in Blank \/ InComment(q, k.entry)
    /\ k.start = Len(sourceCode_) \/ At(k.start) \notin Blank \cup {"#"}
    /\ k.lineExit = k.lineEntry
                      + Cardinality({q \in k.entry..(k.start - 1) : At(q) = "\n"})
    /\ k.start = Len(sourceCode_) <=> ReturnedEndOfFile(k)

\* C11 witness: a call skipped a comment and the newline ending it, counted
\* the line, and returned the operator token after them.
C11_Witness ==
  \E i \in CallIds :
    /\ At(calls[i].entry) = "#"
    /\ calls[i].start >= calls[i].entry + 2
    /\ calls[i].lineExit = calls[i].lineEntry + 1
    /\ calls[i].path = "op"

\* C12 (as claimed): the source "x = 1  # comment\n" scans as IDENTIFIER "x",
\* ASSIGN, a number literal "1", END_OF_FILE; and every call that begins at a
\* digit returns a literal token whose lexeme begins with that digit.
C12_NumberLiteral ==
  /\ sourceCode_ = <<"x"," ","="," ","1"," "," ","#"," ","c","o","m","m","e","n","t","\n">> =>
       /\ Len(calls) >= 1 => calls[1].tok = Token("IDENTIFIER", <<"x">>, 1)
       /\ Len(calls) >= 2 => calls[2].tok = Token("ASSIGN", <<"=">>, 1)
       /\ Len(calls) >= 3 => /\ ReturnedToken(calls[3])
                             /\ calls[3].tok.lexeme_ = <<"1">>
                             /\ calls[3].tok.line_ = 1
       /\ Len(calls) >= 4 => ReturnedEndOfFile(calls[4])
  /\ \A i \in CallIds :
       LET k == calls[i] IN
       (k.start < Len(sourceCode_) /\ At(k.start) \in Digit) =>
         /\ ReturnedToken(k)
         /\ k.tok.type_ \notin {"IDENTIFIER", "END_OF_FILE", ERROR}
         /\ Len(k.tok.lexeme_) >= 1 /\ k.tok.lexeme_[1] = At(k.start)

\* C13 (as claimed): the source "if x<=3:\n  pass" scans as KW_IF,
\* IDENTIFIER "x", LESS_EQUAL, a number literal "3", COLON, each token over
\* exactly its own characters.
C13_IfStatement ==
  sourceCode_ = <<"i","f"," ","x","<","=","3",":","\n"," "," ","p","a","s","s">> =>
    /\ Len(calls) >= 1 => calls[1].tok = Token("KW_IF", <<"i","f">>, 1) /\ calls[1].exit = 2
    /\ Len(calls) >= 2 => calls[2].tok = Token("IDENTIFIER", <<"x">>, 1) /\ calls[2].exit = 4
    /\ Len(calls) >= 3 => calls[3].tok = Token("LESS_EQUAL", <<"<","=">>, 1) /\ calls[3].exit = 6
    /\ Len(calls) >= 4 => /\ ReturnedToken(calls[4])
                          /\ calls[4].tok.lexeme_ = <<"3">>
                          /\ calls[4].exit = 7
    /\ Len(calls) >= 5 => calls[5].tok = Token("COLON", <<":">>, 1) /\ calls[5].exit = 8

\* C14 (as claimed): the lexeme of every returned token other than
\* END_OF_FILE is the source text from where the token began to the cursor
\* after the call, and is as long as the number of characters consumed.
C14_LexemeIsConsumedText ==
  \A i \in CallIds :
    LET k == calls[i] IN
    (ReturnedToken(k) /\ k.tok.type_ # "END_OF_FILE") =>
      /\ k.tok.lexeme_ = SubSeq(sourceCode_, k.start + 1, k.exit)
      /\ Len(k.tok.lexeme_) = k.exit - k.start

\* C15 (as claimed): in every state the line counter is 1 plus the number of
\* '\n' among the characters the cursor has passed.
C15_LineCountsConsumedNewlines ==
  line_ = NewlinesBefore(currentPosition_) + 1

\* The kind of each one-character token that needs no lookahead.
SingleCharKind(c) ==
  CASE c = "+" -> "PLUS"          [] c = "*" -> "ASTERISK"     [] c = "%" -> "MODULO"
    [] c = "(" -> "LEFT_PAREN"    [] c = ")" -> "RIGHT_PAREN"
    [] c = "[" -> "LEFT_BRACKET"  [] c = "]" -> "RIGHT_BRACKET"
    [] c = "," -> "COMMA"         [] c = ":" -> "COLON"        [] c = "." -> "DOT"

SingleChars == {"+", "*", "%", "(", ")", "[", "]", ",", ":", "."}

\* C16: a call that begins at one of + * % ( ) [ ] , : . returns that
\* character's token with the one-character lexeme and the current line,
\* leaves the cursor right after the character and the line counter at its
\* value after the skip, whatever character follows.
C16_SingleCharTokens ==
  \A i \in CallIds :
    LET k == calls[i] IN
    (k.start < Len(sourceCode_) /\ At(k.start) \in SingleChars) =>
      /\ ReturnedToken(k)
      /\ k.tok = Token(SingleCharKind(At(k.start)), <<At(k.start)>>, k.lineExit)
      /\ k.exit = k.start + 1
      /\ k.lineExit = k.lineEntry
                        + Cardinality({q \in k.entry..(k.start - 1) : At(q) = "\n"})
      /\ i < Len(calls) => calls[i + 1].entry = k.start + 1

\* C16 witness: a ':' directly followed by another token start was returned
\* as COLON and the next call began right after it.
C16_Witness ==
  \E i \in CallIds :
    /\ i < Len(calls)
    /\ At(calls[i].start) = ":"
    /\ calls[i].tok.type_ = "COLON"
    /\ calls[i + 1].start = calls[i].start + 1
    /\ calls[i + 1].path = "op"

RunChars == Lower \cup Upper \cup Digit \cup {"_"}

\* C17: a call that begins at a letter or underscore consumes the maximal
\* run of letters, digits and underscores from there: the lexeme is that
\* whole run, the cursor ends at end-of-input or at a character outside the
\* run, and the kind is the one of the whole lexeme.
C17_MaximalRun ==
  \A i \in CallIds :
    LET k == calls[i] IN
    (k.start < Len(sourceCode_) /\ At(k.start) \in Lower \cup Upper \cup {"_"}) =>
      /\ k.path = "ident"
      /\ k.exit > k.start
      /\ k.tok.lexeme_ = SubSeq(sourceCode_, k.start + 1, k.exit)
      /\ \A q \in k.start..(k.exit - 1) : At(q) \in RunChars
      /\ k.exit = Len(sourceCode_) \/ At(k.exit) \notin RunChars
      /\ k.tok.type_ = KindOfRun(k.tok.lexeme_)
      /\ k.tok.line_ = k.lineExit

\* C17 witness: an identifier with a digit in it was scanned up to the
\* operator character that follows it.
C17_Witness ==
  \E i \in CallIds :
    /\ calls[i].path = "ident"
    /\ \E j \in 1..Len(calls[i].tok.lexeme_) : calls[i].tok.lexeme_[j] \in Digit
    /\ calls[i].exit < Len(sourceCode_)
    /\ At(calls[i].exit) \notin RunChars \cup Blank

\* C18: the cursor stays within 0 .. length(source), and every read of the
\* buffer is at an index of at most the length, the reads of getChar, of the
\* skip loops and of scanIdentifier at an index strictly below it.
C18_CursorAndReadsInBounds ==
  /\ currentPosition_ >= 0 /\ currentPosition_ <= Len(sourceCode_)
  /\ \A i \in CallIds :
       /\ calls[i].entry >= 0 /\ calls[i].exit <= Len(sourceCode_)
       /\ \A r \in calls[i].reads :
            /\ r.at >= 0 /\ r.at <= Len(sourceCode_)
            /\ r.by # "peekChar" => r.at < Len(sourceCode_)

\* C18 witness: peekChar read the buffer at index length (the terminator) in
\* a call that left the cursor at end-of-input, and scanIdentifier read too.
C18_Witness ==
  /\ currentPosition_ = Len(sourceCode_)
  /\ \E i \in CallIds : \E r \in calls[i].reads :
       r.by = "peekChar" /\ r.at = Len(sourceCode_)
  /\ \E i \in CallIds : \E r \in calls[i].reads : r.by = "scanIdentifier"

\* Each operator and delimiter kind with its one lexeme.
OperatorPairs ==
  { <<"PLUS", <<"+">>>>, <<"MINUS", <<"-">>>>, <<"ARROW", <<"-", ">">>>>,
    <<"ASTERISK", <<"*">>>>, <<"DOUBLE_SLASH", <<"/", "/">>>>, <<"MODULO", <<"%">>>>,
    <<"LESS", <<"<">>>>, <<"LESS_EQUAL", <<"<", "=">>>>,
    <<"GREATER", <<">">>>>, <<"GREATER_EQUAL", <<">", "=">>>>,
    <<"ASSIGN", <<"=">>>>, <<"EQUALS", <<"=", "=">>>>, <<"NOT_EQUAL", <<"!", "=">>>>,
    <<"LEFT_PAREN", <<"(">>>>, <<"RIGHT_PAREN", <<")">>>>,
    <<"LEFT_BRACKET", <<"[">>>>, <<"RIGHT_BRACKET", <<"]">>>>,
    <<"COMMA", <<",">>>>, <<"COLON", <<":">>>>, <<"DOT", <<".">>>> }

OperatorKinds == {p[1] : p \in OperatorPairs}

KeywordKinds == {ReservedWords[i][2] : i \in 1..Len(ReservedWords)}

\* C19: kind and lexeme of every returned token agree: an operator or
\* delimiter kind comes with its one lexeme, a keyword kind with its reserved
\* word, IDENTIFIER with a non-empty run that starts with a letter or
\* underscore and is no reserved word, END_OF_FILE with the empty lexeme; and
\* no returned token is of any other kind.
C19_KindMatchesLexeme ==
  \A i \in CallIds :
    LET t == calls[i].tok IN
    ReturnedToken(calls[i]) =>
      CASE t.type_ \in OperatorKinds -> <<t.type_, t.lexeme_>> \in OperatorPairs
        [] t.type_ \in KeywordKinds  ->
             \E j \in 1..Len(ReservedWords) :
               ReservedWords[j][2] = t.type_ /\ ReservedWords[j][1] = t.lexeme_
        [] t.type_ = "IDENTIFIER"    ->
             IsIdentifierRun(t.lexeme_) /\ t.lexeme_ \notin ReservedWordSet
        [] t.type_ = "END_OF_FILE"   -> t.lexeme_ = <<>>
        [] OTHER -> FALSE

\* C19 witness: one scan returned a keyword, an identifier, a two-character
\* operator and END_OF_FILE.
C19_Witness ==
  /\ \E i \in CallIds : ReturnedToken(calls[i]) /\ calls[i].tok.type_ \in KeywordKinds
  /\ \E i \in CallIds : ReturnedToken(calls[i]) /\ calls[i].tok.type_ = "IDENTIFIER"
  /\ \E i \in CallIds : /\ ReturnedToken(calls[i])
                        /\ calls[i].tok.type_ \in OperatorKinds
                        /\ Len(calls[i].tok.lexeme_) = 2
  /\ ReturnedEndOfFile(calls[Len(calls)])

====
